---- MODULE Spec2Model ----
(***************************************************************************)
(* YTFS (src/ytfs.py): the FUSE operation handlers of class YTFS, the      *)
(* descriptor table fd_dict and the path identifier, as a state machine.   *)
(*                                                                         *)
(* Strings are sequences of one-character strings, so that split('/'),     *)
(* count('/') and p[1][0] == ' ' are computed as the code computes them.   *)
(* The host runtime (fusepy, foreground or not) dispatches handlers from   *)
(* several threads; a handler is split into steps where it writes shared   *)
(* state or calls into the Resolver (actions.py), and a thread switch can  *)
(* happen between two steps.  Reads that are only separated by pure code   *)
(* are taken in one step: fewer interleavings than the code allows, so     *)
(* every behaviour of Spec is a behaviour of the code.  SeqSpec runs one   *)
(* handler at a time, from call to return.                                 *)
(***************************************************************************)
EXTENDS Integers, Sequences, FiniteSets, TLC

VARIABLES
    searches,   \* YTFS.searches: search phrase -> id of its YTActions object
    ctxs,       \* the reachable YTActions objects: id -> [phrase, entries, cleaned]
    fds,        \* YTFS.fds (fd_dict): descriptor -> YTStor handle or NoStor (None)
    pc,         \* per thread: position inside its handler, "done" when it has
                \* returned, "idle" once the host runtime has taken the result
    call,       \* per thread: the call in progress or last returned, with the
                \* tree and descriptor table as they were when it started
    tid,        \* per thread: the tuple identifier _pathdec passes to the handler
    new,        \* per thread: rename's second tuple identifier
    k,          \* per thread: fd_dict.push's loop variable
    yts,        \* per thread: the YTStor open is about to bind (NoStor: None)
    log,        \* per thread: the Resolver calls this handler invocation made
    ret,        \* per thread: what the last call returned, NoRet while running
    wrote,      \* per thread: the call in progress or last returned has changed
                \* self.searches or self.fds
    opened      \* descriptor -> number of opens that returned it since it was last
                \* released

vars == <<searches, ctxs, fds, pc, call, tid, new, k, yts, log, ret, wrote, opened>>

---------------------------------------------------------------------------
(* Bounds *)

\* Descriptors an open may hold at once (opens are not started beyond it).
MaxFds == 2

Threads == {1, 2}

\* The thread that runs the handlers of SeqSpec.
SeqThread == CHOOSE t \in Threads : \A u \in Threads : t <= u

---------------------------------------------------------------------------
(* Strings *)

\* Python's None for a tuple component: a sequence no string equals, since
\* its element is not a character.
None == <<"None">>

sA == <<"a">>
sB == <<"b">>
sF == <<"f">>
sNext == <<" ", "n", "e", "x", "t">>
sPrev == <<" ", "p", "r", "e", "v">>
sX == <<" ", "x">>
Slash == <<"/">>

\* Names of search directories and of entries the inputs are built from.
DirNames == {sA, sB}
EntryNames == {sF, sNext, sPrev, sX}

\* Entry names a YTActions object may hold after a search or a page turn.
ResultNames == {sF, sNext}

\* Malformed path strings: empty, relative, too deep.
BadPaths == {<<>>, sA, Slash \o sA \o Slash \o sF \o Slash \o sF}

\* The path strings handed to the handlers: the malformed ones, "/", "//",
\* directories with and without a trailing separator, result files and
\* control files.
Paths ==
    {Slash, Slash \o Slash} \cup BadPaths
    \cup {Slash \o d : d \in DirNames}
    \cup {Slash \o sA \o Slash}
    \cup {Slash \o sA \o Slash \o e : e \in EntryNames}
    \cup {Slash \o sB \o Slash \o e : e \in {sF, sX}}

\* rename's arguments.
OldPaths ==
    {<<>>, Slash, Slash \o sA, Slash \o sB, Slash \o sA \o Slash \o sF,
     Slash \o sB \o Slash \o sF, Slash \o sA \o Slash \o sNext}
NewPaths ==
    {sB, Slash, Slash \o sA, Slash \o sB, Slash \o sB \o Slash \o sF}

\* The paths of open, of read and of release.
FilePaths ==
    {Slash, Slash \o sB \o Slash \o sNext}
    \cup {Slash \o sA \o Slash \o e : e \in EntryNames}
OpenPaths == FilePaths \cup {<<>>, Slash \o sA}
ReadPaths == FilePaths \cup {<<>>}
ReleasePaths == {<<>>, Slash, Slash \o sA \o Slash \o sF}

---------------------------------------------------------------------------
(* Python dict operations on functions *)

Put(f, key, v) == [x \in DOMAIN f \cup {key} |-> IF x = key THEN v ELSE f[x]]
Del(f, key) == [x \in DOMAIN f \ {key} |-> f[x]]
EmptyDict == [x \in {} |-> 0]

---------------------------------------------------------------------------
(* Path identifier: YTFS.__pathToTuple and YTFS.PathType.get *)

\* str.count('/')
RECURSIVE CountSlash(_)
CountSlash(s) ==
    IF s = <<>> THEN 0
    ELSE (IF Head(s) = "/" THEN 1 ELSE 0) + CountSlash(Tail(s))

\* str.split('/'): the segments between the separators, empty ones included
RECURSIVE Split(_)
Split(s) ==
    IF s = <<>> THEN << <<>> >>
    ELSE LET r == Split(Tail(s))
         IN  IF Head(s) = "/" THEN << <<>> >> \o r
             ELSE << <<Head(s)>> \o r[1] >> \o Tail(r)

\* Python truth value of a tuple component (None and '' are false)
Truthy(x) == x # None /\ x # <<>>

PathConvertError == [ok |-> FALSE, tup |-> <<None, None>>]

\* Mutant of pathToTuple: the depth checks of 206 and 223 are missing.
pathToTuple_NoDepth(path) ==
    IF path = <<>> THEN PathConvertError
    ELSE LET split0 == Split(path) IN
    IF split0[1] # <<>> THEN PathConvertError
    ELSE LET split1 == Tail(split0) IN
    IF split1 = <<>> THEN PathConvertError
    ELSE LET split == IF split1[Len(split1)] = <<>>
                      THEN SubSeq(split1, 1, Len(split1) - 1)
                      ELSE split1
             d == IF Len(split) >= 1 THEN split[1] ELSE None
             f == IF Len(split) >= 2 THEN split[2] ELSE None
         IN  IF ~Truthy(d) /\ Truthy(f) THEN PathConvertError
             ELSE [ok |-> TRUE, tup |-> <<d, f>>]

\* ytfs.py 206-238.  ok = FALSE stands for raising PathConvertError.
pathToTuple(path) ==
    IF path = <<>> \/ CountSlash(path) > 2 THEN PathConvertError
    ELSE LET split0 == Split(path) IN
    IF split0[1] # <<>> THEN PathConvertError
    ELSE LET split1 == Tail(split0) IN
    IF split1 = <<>> THEN PathConvertError
    ELSE LET split == IF split1[Len(split1)] = <<>>
                      THEN SubSeq(split1, 1, Len(split1) - 1)
                      ELSE split1 IN
    IF Len(split) > 2 THEN PathConvertError
    ELSE LET d == IF Len(split) >= 1 THEN split[1] ELSE None
             f == IF Len(split) >= 2 THEN split[2] ELSE None
         IN  IF ~Truthy(d) /\ Truthy(f) THEN PathConvertError
             ELSE [ok |-> TRUE, tup |-> <<d, f>>]

\* ytfs.py 161-178, on a tuple identifier (the conversion attempt of 156-159
\* raises TypeError on a tuple and is passed over).
PathTypeGet(p) ==
    IF p[1] = None /\ p[2] = None THEN "main"
    ELSE IF Truthy(p[1]) /\ p[2] = None THEN "subdir"
    ELSE IF Truthy(p[1]) /\ Truthy(p[2])
         THEN (IF p[2][1] = " " THEN "ctrl" ELSE "file")
    ELSE "invalid"

---------------------------------------------------------------------------
(* Resolver objects (actions.py: YTActions, YTStor) *)

\* The value None of a descriptor bound to a control file.
NoStor == [ctx |-> <<>>, name |-> <<>>]

\* The YTStor object of entry e of YTActions object c.
Stor(c, e) == [ctx |-> c, name |-> e]

\* YTActions(phrase): a new object, nothing searched yet.
YTActions(phrase) == [phrase |-> phrase, entries |-> {}, cleaned |-> FALSE]

\* e in self.searches[d]
Contains(cs, c, e) == e \in cs[c].entries

\* self.searches[d][e] raises KeyError: a control file has no YTStor (the
\* comment of ytfs.py 525), and neither has a name the object does not hold.
HasStor(cs, c, e) == e \in cs[c].entries /\ e[1] # " "

\* ctxs holds the YTActions objects the tree references; one the tree has
\* dropped is garbage (the handlers reach these objects through
\* self.searches only).
Collect(cs, s) == [c \in (DOMAIN cs \cap {s[n] : n \in DOMAIN s}) |-> cs[c]]

\* The identity of a YTActions object: its phrase and a serial number that
\* tells it from the other live objects made for that phrase.
ObjId(phrase, n) == <<phrase, n>>

\* The ids in use: of the objects of the tree, and of those whose YTStor a
\* descriptor or a handler's local variable still references.
UsedIds(cs, f, ys) ==
    DOMAIN cs \cup {f[d].ctx : d \in DOMAIN f} \cup {ys[t].ctx : t \in DOMAIN ys}

\* The identity of a newly constructed object: one no live object has.
FreshId(phrase, cs, f, ys) ==
    LET used == UsedIds(cs, f, ys)
        n == CHOOSE i \in 0..Cardinality(used) :
                /\ ObjId(phrase, i) \notin used
                /\ \A j \in 0..(i - 1) : ObjId(phrase, j) \in used
    IN  ObjId(phrase, n)

---------------------------------------------------------------------------
(* YTFS.__exists, ytfs.py 261-262 *)

exists(s, cs, p) ==
    \/ (~Truthy(p[1]) /\ ~Truthy(p[2]))
    \/ (p[1] \in DOMAIN s /\ ~Truthy(p[2]))
    \/ (p[1] \in DOMAIN s /\ Contains(cs, s[p[1]], p[2]))

---------------------------------------------------------------------------
(* Calls, results and the Resolver calls a handler makes *)

Set(f, t, v) == [f EXCEPT ![t] = v]

\* A call as the host runtime makes it.  When handlers run one at a time
\* (snap) the record also keeps the tree and the descriptor table of that
\* moment; when threads interleave, what the call itself changed is in wrote.
Call(snap, op, path, npath, flags, length, offset, fh) ==
    [op |-> op, path |-> path, new |-> npath, flags |-> flags,
     length |-> length, offset |-> offset, fh |-> fh,
     searches |-> IF snap THEN searches ELSE EmptyDict,
     ctxs |-> IF snap THEN ctxs ELSE EmptyDict,
     fds |-> IF snap THEN fds ELSE EmptyDict]

NoCall == [op |-> "none", path |-> <<>>, new |-> <<>>, flags |-> 0,
           length |-> 0, offset |-> 0, fh |-> 0,
           searches |-> EmptyDict, ctxs |-> EmptyDict, fds |-> EmptyDict]

\* What a handler returns: code "OK" or the errno FuseOSError carries;
\* "EXC" is an exception the handler does not catch.
Result(code, fh, names, attr, data, stor) ==
    [code |-> code, fh |-> fh, names |-> names, attr |-> attr,
     data |-> data, stor |-> stor]

NoRet == Result("running", 0, {}, "", <<>>, NoStor)
Ok == Result("OK", 0, {}, "", <<>>, NoStor)
Err(code) == Result(code, 0, {}, "", <<>>, NoStor)

\* One call into the Resolver: the method, the object, and its arguments.
ResolverCall(fn, h, dir, offset, length, fh) ==
    [fn |-> fn, ctx |-> h.ctx, name |-> h.name, dir |-> dir,
     offset |-> offset, length |-> length, fh |-> fh]

\* The outcomes of YTActions.updateResults: the entry names the object holds
\* afterwards, none or a page of results with its control file.
SearchResults == {{}, ResultNames}

\* updateResults on object c leaving the entries r.
updateResults(cs, c, r) == [cs EXCEPT ![c].entries = r]

\* YTActions.clean on object c.
clean(cs, c) == [cs EXCEPT ![c].cleaned = TRUE]

\* YTFS.__sh_script, ytfs.py 106
sh_script == <<"#", "!", "/", "b", "i", "n", "/", "s", "h", "\n">>

\* b[offset:offset+length] for offset, length >= 0
Slice(b, offset, length) ==
    SubSeq(b, offset + 1,
           IF offset + length < Len(b) THEN offset + length ELSE Len(b))

\* os.O_WRONLY and os.O_RDWR, and flags & bit
O_WRONLY == 1
O_RDWR == 2
BitAnd(flags, bit) == IF (flags \div bit) % 2 = 1 THEN bit ELSE 0

\* Inputs of open, read and release.
OpenFlags == {0, 1, 2}
Fhs == 0..MaxFds
ReadRanges == {<<0, 4>>, <<3, 20>>, <<12, 4>>}

\* The thread is inside open, from its entry to the descriptor's return.
InOpen(t) == pc[t] \in {"open_info", "push_scan", "push_store", "open_register"}

Inc(b, x) == Put(b, x, IF x \in DOMAIN b THEN b[x] + 1 ELSE 1)

---------------------------------------------------------------------------
(* Init: YTFS.__init__, ytfs.py 108-111 *)

Init ==
    /\ searches = EmptyDict
    /\ ctxs = EmptyDict
    /\ fds = EmptyDict
    /\ pc = [t \in Threads |-> "idle"]
    /\ call = [t \in Threads |-> NoCall]
    /\ tid = [t \in Threads |-> <<None, None>>]
    /\ new = [t \in Threads |-> <<None, None>>]
    /\ k = [t \in Threads |-> 0]
    /\ yts = [t \in Threads |-> NoStor]
    /\ log = [t \in Threads |-> <<>>]
    /\ ret = [t \in Threads |-> NoRet]
    /\ wrote = [t \in Threads |-> FALSE]
    /\ opened = EmptyDict

\* A handler that runs in one step: entered and returned with result r.
Atomic(t, c, p, r) ==
    /\ call' = Set(call, t, c)
    /\ tid' = Set(tid, t, p.tup)
    /\ ret' = Set(ret, t, r)
    /\ pc' = Set(pc, t, "done")
    /\ UNCHANGED <<new, k, yts>>

\* A handler of several steps is entered: it returns r at once (an error
\* found by the entry checks) or goes on at position next.
Enter(t, c, p, r, next) ==
    /\ call' = Set(call, t, c)
    /\ tid' = Set(tid, t, p.tup)
    /\ ret' = Set(ret, t, r)
    /\ pc' = Set(pc, t, IF r = NoRet THEN next ELSE "done")

\* A later step of a handler returns r.
Return(t, r) ==
    /\ pc' = Set(pc, t, "done")
    /\ ret' = Set(ret, t, r)
    /\ k' = Set(k, t, 0)
    /\ yts' = Set(yts, t, NoStor)

\* Whether the call of thread t has, with this step, changed self.searches
\* or self.fds.
Wrote(t) ==
    wrote' = Set(wrote, t, /\ pc'[t] # "idle"
                           /\ \/ (pc[t] # "idle" /\ wrote[t])
                              \/ searches' # searches
                              \/ fds' # fds)

---------------------------------------------------------------------------
(* getattr, ytfs.py 291-335 *)

\* The kind of record getattr builds for a path type (320-331): the
\* directory record of YTFS.st unless the type is file or ctrl.
AttrOf(pt) == IF pt = "file" THEN "file" ELSE IF pt = "ctrl" THEN "ctrl" ELSE "dir"

GetattrResult(s, cs, p) ==
    IF ~exists(s, cs, p) THEN Err("ENOENT")
    ELSE LET pt == PathTypeGet(p) IN
         IF pt = "file" /\ ~HasStor(cs, s[p[1]], p[2]) THEN Err("EXC")
         ELSE Result("OK", 0, {}, AttrOf(pt), <<>>,
                     IF pt = "file" THEN Stor(s[p[1]], p[2]) ELSE NoStor)

Getattr(t, I) ==
    /\ pc[t] = "idle"
    /\ \E path \in I.getattr :
         LET p == pathToTuple(path) IN
         Atomic(t, Call(I.snap, "getattr", path, <<>>, 0, 0, 0, 0), p,
                IF ~p.ok THEN Err("EINVAL") ELSE GetattrResult(searches, ctxs, p.tup))
    /\ log' = Set(log, t, <<>>)
    /\ UNCHANGED <<searches, ctxs, fds, opened>>
    /\ Wrote(t)

---------------------------------------------------------------------------
(* readdir, ytfs.py 337-374 *)

Dots == {<<".">>, <<".", ".">>}

ReaddirResult(s, cs, p) ==
    LET pt == PathTypeGet(p) IN
    IF pt = "main" THEN Result("OK", 0, Dots \cup DOMAIN s, "", <<>>, NoStor)
    ELSE IF pt = "subdir"
         THEN (IF p[1] \in DOMAIN s
               THEN Result("OK", 0, Dots \cup cs[s[p[1]]].entries, "", <<>>, NoStor)
               ELSE Err("ENOENT"))
    ELSE IF pt = "file" THEN Err("ENOTDIR")
    ELSE Err("ENOENT")

Readdir(t, I) ==
    /\ pc[t] = "idle"
    /\ \E path \in I.readdir :
         LET p == pathToTuple(path) IN
         Atomic(t, Call(I.snap, "readdir", path, <<>>, 0, 0, 0, 0), p,
                IF ~p.ok THEN Err("EINVAL") ELSE ReaddirResult(searches, ctxs, p.tup))
    /\ log' = Set(log, t, <<>>)
    /\ UNCHANGED <<searches, ctxs, fds, opened>>
    /\ Wrote(t)

---------------------------------------------------------------------------
(* mkdir, ytfs.py 376-401 *)

\* Mutant of MkdirCheck: a result-file address is not refused.
MkdirCheck_NoFile(s, cs, p) ==
    IF PathTypeGet(p) = "invalid" THEN Err("EPERM")
    ELSE IF exists(s, cs, p) THEN Err("EEXIST")
    ELSE NoRet

\* 390-396: the checks before the directory is made.
MkdirCheck(s, cs, p) ==
    LET pt == PathTypeGet(p) IN
    IF pt = "invalid" \/ pt = "file" THEN Err("EPERM")
    ELSE IF exists(s, cs, p) THEN Err("EEXIST")
    ELSE NoRet

MkdirCall(t, I) ==
    /\ pc[t] = "idle"
    /\ \E path \in I.mkdir :
         LET p == pathToTuple(path) IN
         Enter(t, Call(I.snap, "mkdir", path, <<>>, 0, 0, 0, 0), p,
               IF ~p.ok THEN Err("EINVAL") ELSE MkdirCheck(searches, ctxs, p.tup),
               "mkdir_new")
    /\ log' = Set(log, t, <<>>)
    /\ UNCHANGED <<searches, ctxs, fds, new, k, yts, opened>>
    /\ Wrote(t)

\* Mutant of StoreSearch: the dictionary is replaced, not updated.
StoreSearch_Only(s, name, c) == [x \in {name} |-> c]

\* self.searches[name] = YTActions(name), 398 and 430
StoreSearch(s, name, c) == Put(s, name, c)

\* 398
MkdirNew(t) ==
    /\ pc[t] = "mkdir_new"
    /\ LET c == FreshId(tid[t][1], ctxs, fds, yts) IN
         /\ searches' = StoreSearch(searches, tid[t][1], c)
         /\ ctxs' = Collect(Put(ctxs, c, YTActions(tid[t][1])), searches')
    /\ pc' = Set(pc, t, "mkdir_update")
    /\ UNCHANGED <<fds, call, tid, new, k, yts, log, ret, opened>>
    /\ Wrote(t)

\* self.searches[name].updateResults() of 399 and 431: the object now under
\* name runs the initial search, which leaves some entries or raises; the
\* lookup raises KeyError when name is gone.  goon: the position after it.
InitialSearch(t, name, goon, results) ==
    IF name \notin DOMAIN searches
    THEN /\ Return(t, Err("EXC"))
         /\ UNCHANGED <<searches, ctxs, log>>
    ELSE \E o \in {[raise |-> TRUE, r |-> {}]}
                  \cup {[raise |-> FALSE, r |-> r] : r \in results} :
           /\ log' = Set(log, t, Append(log[t],
                  ResolverCall("updateResults", Stor(searches[name], <<>>), "initial", 0, 0, 0)))
           /\ UNCHANGED searches
           /\ IF o.raise
              THEN /\ Return(t, Err("EXC"))
                   /\ UNCHANGED ctxs
              ELSE /\ ctxs' = updateResults(ctxs, searches[name], o.r)
                   /\ IF goon = "done"
                      THEN Return(t, Ok)
                      ELSE /\ pc' = Set(pc, t, goon)
                           /\ UNCHANGED <<ret, k, yts>>

\* 399-401
MkdirUpdate(t, I) ==
    /\ pc[t] = "mkdir_update"
    /\ InitialSearch(t, tid[t][1], "done", I.results)
    /\ UNCHANGED <<fds, call, tid, new, opened>>
    /\ Wrote(t)

---------------------------------------------------------------------------
(* rename, ytfs.py 403-439 *)

\* Mutant of RenameCheck: only the new address has to be a directory.
RenameCheck_NewOnly(s, cs, old, nw) ==
    IF ~exists(s, cs, old) THEN Err("ENOENT")
    ELSE IF PathTypeGet(nw) # "subdir" THEN Err("EPERM")
    ELSE IF exists(s, cs, nw) THEN Err("EEXIST")
    ELSE NoRet

\* 421-428: the checks before the new directory is made.
RenameCheck(s, cs, old, nw) ==
    IF ~exists(s, cs, old) THEN Err("ENOENT")
    ELSE IF PathTypeGet(old) # "subdir" \/ PathTypeGet(nw) # "subdir" THEN Err("EPERM")
    ELSE IF exists(s, cs, nw) THEN Err("EEXIST")
    ELSE NoRet

RenameCall(t, I) ==
    /\ pc[t] = "idle"
    /\ \E path \in I.old, npath \in I.new :
         LET p == pathToTuple(path)
             n == pathToTuple(npath)
         IN  /\ Enter(t, Call(I.snap, "rename", path, npath, 0, 0, 0, 0), p,
                      IF ~p.ok \/ ~n.ok THEN Err("EINVAL")
                      ELSE RenameCheck(searches, ctxs, p.tup, n.tup),
                      "rename_new")
             /\ new' = Set(new, t, n.tup)
    /\ log' = Set(log, t, <<>>)
    /\ UNCHANGED <<searches, ctxs, fds, k, yts, opened>>
    /\ Wrote(t)

\* 430
RenameNew(t) ==
    /\ pc[t] = "rename_new"
    /\ LET c == FreshId(new[t][1], ctxs, fds, yts) IN
         /\ searches' = StoreSearch(searches, new[t][1], c)
         /\ ctxs' = Collect(Put(ctxs, c, YTActions(new[t][1])), searches')
    /\ pc' = Set(pc, t, "rename_update")
    /\ UNCHANGED <<fds, call, tid, new, k, yts, log, ret, opened>>
    /\ Wrote(t)

\* 431
RenameUpdate(t, I) ==
    /\ pc[t] = "rename_update"
    /\ InitialSearch(t, new[t][1], "rename_del", I.results)
    /\ UNCHANGED <<fds, call, tid, new, opened>>
    /\ Wrote(t)

\* Mutant of DelSearch: nothing is deleted.
DelSearch_Keep(s, name) == s

\* del self.searches[name], 434 and 462
DelSearch(s, name) == Del(s, name)

\* 433-439
RenameDel(t) ==
    /\ pc[t] = "rename_del"
    /\ IF tid[t][1] \in DOMAIN searches
       THEN /\ searches' = DelSearch(searches, tid[t][1])
            /\ Return(t, Ok)
       ELSE /\ UNCHANGED searches
            /\ Return(t, Err("ENOENT"))
    /\ ctxs' = Collect(ctxs, searches')
    /\ UNCHANGED <<fds, call, tid, new, log, opened>>
    /\ Wrote(t)

---------------------------------------------------------------------------
(* rmdir, ytfs.py 441-467 *)

\* Mutant of RmdirCheck: Root is not told from the other non-directories.
RmdirCheck_NoRoot(s, p) ==
    IF PathTypeGet(p) # "subdir" THEN Err("ENOTDIR")
    ELSE IF p[1] \notin DOMAIN s THEN Err("ENOENT")
    ELSE NoRet

\* 453-458, and the lookup of 461
RmdirCheck(s, p) ==
    LET pt == PathTypeGet(p) IN
    IF pt = "main" THEN Err("EINVAL")
    ELSE IF pt # "subdir" THEN Err("ENOTDIR")
    ELSE IF p[1] \notin DOMAIN s THEN Err("ENOENT")
    ELSE NoRet

\* Mutant of RmdirCalls: rmdir does not call clean().
RmdirCalls_None(c) == <<>>

\* self.searches[tid[0]].clean(), 461: the Resolver calls rmdir makes on
\* the directory's object c
RmdirCalls(c) == <<ResolverCall("clean", Stor(c, <<>>), "", 0, 0, 0)>>

\* 453-461: the checks, then clean() on the directory's object
RmdirCall(t, I) ==
    /\ pc[t] = "idle"
    /\ \E path \in I.rmdir :
         LET p == pathToTuple(path)
             r == IF ~p.ok THEN Err("EINVAL") ELSE RmdirCheck(searches, p.tup)
         IN  /\ Enter(t, Call(I.snap, "rmdir", path, <<>>, 0, 0, 0, 0), p, r, "rmdir_del")
             /\ IF r = NoRet
                THEN /\ ctxs' = clean(ctxs, searches[p.tup[1]])
                     /\ log' = Set(log, t, RmdirCalls(searches[p.tup[1]]))
                ELSE /\ UNCHANGED ctxs
                     /\ log' = Set(log, t, <<>>)
    /\ UNCHANGED <<searches, fds, new, k, yts, opened>>
    /\ Wrote(t)

\* 462-467
RmdirDel(t) ==
    /\ pc[t] = "rmdir_del"
    /\ IF tid[t][1] \in DOMAIN searches
       THEN /\ searches' = DelSearch(searches, tid[t][1])
            /\ Return(t, Ok)
       ELSE /\ UNCHANGED searches
            /\ Return(t, Err("ENOENT"))
    /\ ctxs' = Collect(ctxs, searches')
    /\ UNCHANGED <<fds, call, tid, new, log, opened>>
    /\ Wrote(t)

---------------------------------------------------------------------------
(* unlink, ytfs.py 469-482 *)

Unlink(t, I) ==
    /\ pc[t] = "idle"
    /\ \E path \in I.unlink :
         LET p == pathToTuple(path) IN
         Atomic(t, Call(I.snap, "unlink", path, <<>>, 0, 0, 0, 0), p,
                IF ~p.ok THEN Err("EINVAL") ELSE Ok)
    /\ log' = Set(log, t, <<>>)
    /\ UNCHANGED <<searches, ctxs, fds, opened>>
    /\ Wrote(t)

---------------------------------------------------------------------------
(* open, ytfs.py 484-525, and fd_dict.push, 27-52 *)

\* Mutant of OpenCheck: the access mode is not looked at.
OpenCheck_AnyMode(s, cs, p, flags) ==
    LET pt == PathTypeGet(p) IN
    IF pt # "file" /\ pt # "ctrl" THEN Err("EINVAL")
    ELSE IF ~exists(s, cs, p) THEN Err("ENOENT")
    ELSE NoRet

\* 503-512: the checks before the YTStor is looked up.
OpenCheck(s, cs, p, flags) ==
    LET pt == PathTypeGet(p) IN
    IF pt # "file" /\ pt # "ctrl" THEN Err("EINVAL")
    ELSE IF BitAnd(flags, O_WRONLY) # 0 \/ BitAnd(flags, O_RDWR) # 0 THEN Err("EROFS")
    ELSE IF ~exists(s, cs, p) THEN Err("ENOENT")
    ELSE NoRet

\* 503-517: the checks and yts = self.searches[d][e]; KeyError leads to
\* push(None) (524-525), a YTStor to obtainInfo().
OpenCall(t, I) ==
    /\ pc[t] = "idle"
    /\ Cardinality(DOMAIN fds) + Cardinality({u \in Threads : InOpen(u)}) < MaxFds
    /\ \E path \in I.open, flags \in I.flags :
         LET p == pathToTuple(path)
             r == IF ~p.ok THEN Err("EINVAL")
                  ELSE OpenCheck(searches, ctxs, p.tup, flags)
             found == r = NoRet /\ HasStor(ctxs, searches[p.tup[1]], p.tup[2])
         IN  /\ Enter(t, Call(I.snap, "open", path, <<>>, flags, 0, 0, 0), p, r,
                      IF found THEN "open_info" ELSE "push_scan")
             /\ yts' = Set(yts, t, IF found THEN Stor(searches[p.tup[1]], p.tup[2])
                                   ELSE NoStor)
    /\ k' = Set(k, t, 0)
    /\ log' = Set(log, t, <<>>)
    /\ UNCHANGED <<searches, ctxs, fds, new, opened>>
    /\ Wrote(t)

\* 517, 522: yts.obtainInfo() answers true or false
OpenInfo(t) ==
    /\ pc[t] = "open_info"
    /\ log' = Set(log, t, Append(log[t], ResolverCall("obtainInfo", yts[t], "", 0, 0, 0)))
    /\ \E info \in BOOLEAN :
         IF info
         THEN /\ pc' = Set(pc, t, "push_scan")
              /\ UNCHANGED <<ret, k, yts, ctxs>>
         ELSE /\ Return(t, Err("EINVAL"))
              /\ UNCHANGED ctxs
    /\ UNCHANGED <<searches, fds, call, tid, new, opened>>
    /\ Wrote(t)

\* Mutant of InUse: no key is taken for used, the loop never advances.
InUse_Never(f, key) == FALSE

\* k in self.keys(), 48
InUse(f, key) == key \in DOMAIN f

\* 48-49: one test of the loop  while k in self.keys(): k += 1
PushScan(t) ==
    /\ pc[t] = "push_scan"
    /\ IF InUse(fds, k[t])
       THEN /\ k' = Set(k, t, k[t] + 1)
            /\ UNCHANGED pc
       ELSE /\ pc' = Set(pc, t, "push_store")
            /\ UNCHANGED k
    /\ UNCHANGED <<searches, ctxs, fds, call, tid, new, yts, log, ret, opened>>
    /\ Wrote(t)

\* Mutant of StoreFd: the table is replaced by the new binding.
StoreFd_Alone(f, key, y) == [x \in {key} |-> y]

\* self[k] = yts, 50
StoreFd(f, key, y) == Put(f, key, y)

\* 50-52, and the return of 525 when the descriptor is a control file's
PushStore(t) ==
    /\ pc[t] = "push_store"
    /\ fds' = StoreFd(fds, k[t], yts[t])
    /\ IF yts[t] = NoStor
       THEN /\ opened' = Inc(opened, k[t])
            /\ Return(t, Result("OK", k[t], {}, "", <<>>, NoStor))
       ELSE /\ pc' = Set(pc, t, "open_register")
            /\ UNCHANGED <<ret, k, yts, opened>>
    /\ UNCHANGED <<searches, ctxs, call, tid, new, log>>
    /\ Wrote(t)

\* 519-520: yts.registerHandler(fh); return fh
OpenRegister(t) ==
    /\ pc[t] = "open_register"
    /\ log' = Set(log, t, Append(log[t],
                  ResolverCall("registerHandler", yts[t], "", 0, 0, k[t])))
    /\ opened' = Inc(opened, k[t])
    /\ Return(t, Result("OK", k[t], {}, "", <<>>, yts[t]))
    /\ UNCHANGED <<searches, ctxs, fds, call, tid, new>>
    /\ Wrote(t)

---------------------------------------------------------------------------
(* read, ytfs.py 527-571 *)

\* Mutant of Direction: a name that is not " next" pages backward.
Direction_TwoWay(e) == IF e = sNext THEN "True" ELSE "False"

\* 556-561: the direction a control file's name asks for
Direction(e) ==
    IF e = sNext THEN "True" ELSE IF e = sPrev THEN "False" ELSE "None"

Read(t, I) ==
    /\ pc[t] = "idle"
    /\ \E path \in I.read, fh \in I.fhs, rng \in I.ranges :
         LET p == pathToTuple(path)
             offset == rng[1]
             length == rng[2]
             c == Call(I.snap, "read", path, <<>>, 0, length, offset, fh)
         IN  IF ~p.ok
             THEN /\ Atomic(t, c, p, Err("EINVAL"))
                  /\ log' = Set(log, t, <<>>)
                  /\ UNCHANGED ctxs
             ELSE IF fh \notin DOMAIN fds
             THEN /\ Atomic(t, c, p, Err("EBADF"))
                  /\ log' = Set(log, t, <<>>)
                  /\ UNCHANGED ctxs
             ELSE IF fds[fh] # NoStor
             THEN /\ Atomic(t, c, p, Result("OK", 0, {}, "", <<>>, fds[fh]))
                  /\ log' = Set(log, t,
                        <<ResolverCall("read", fds[fh], "", offset, length, fh)>>)
                  /\ UNCHANGED ctxs
             ELSE IF p.tup[1] \notin DOMAIN searches
             THEN /\ Atomic(t, c, p, Err("EINVAL"))
                  /\ log' = Set(log, t, <<>>)
                  /\ UNCHANGED ctxs
             ELSE \E r \in I.results :
                  /\ Atomic(t, c, p,
                        Result("OK", 0, {}, "", Slice(sh_script, offset, length), NoStor))
                  /\ log' = Set(log, t,
                        <<ResolverCall("updateResults", Stor(searches[p.tup[1]], <<>>),
                                       Direction(p.tup[2]), 0, 0, 0)>>)
                  /\ ctxs' = updateResults(ctxs, searches[p.tup[1]], r)
    /\ UNCHANGED <<searches, fds, opened>>
    /\ Wrote(t)

---------------------------------------------------------------------------
(* release, ytfs.py 573-592 *)

\* Mutant of DelFd: the whole table is cleared.
DelFd_All(f, fh) == EmptyDict

\* Mutant of DelFd: the binding stays in the table.
DelFd_Keep(f, fh) == f

\* del self.fds[fh], 588
DelFd(f, fh) == Del(f, fh)

Release(t, I) ==
    /\ pc[t] = "idle"
    /\ \E path \in I.release, fh \in I.fhs :
         LET p == pathToTuple(path)
             c == Call(I.snap, "release", path, <<>>, 0, 0, 0, fh)
         IN  IF ~p.ok
             THEN /\ Atomic(t, c, p, Err("EINVAL"))
                  /\ UNCHANGED <<fds, opened>>
             ELSE IF fh \in DOMAIN fds
             THEN /\ Atomic(t, c, p, Ok)
                  /\ fds' = DelFd(fds, fh)
                  /\ opened' = Del(opened, fh)
             ELSE /\ Atomic(t, c, p, Err("EBADF"))
                  /\ UNCHANGED <<fds, opened>>
    /\ log' = Set(log, t, <<>>)
    /\ UNCHANGED <<searches, ctxs>>
    /\ Wrote(t)

---------------------------------------------------------------------------
(* The host runtime takes the handler's result; the thread waits for the
   next request. *)

Reply(t) ==
    /\ pc[t] = "done"
    /\ pc' = Set(pc, t, "idle")
    /\ call' = Set(call, t, NoCall)
    /\ ret' = Set(ret, t, NoRet)
    /\ tid' = Set(tid, t, <<None, None>>)
    /\ new' = Set(new, t, <<None, None>>)
    /\ log' = Set(log, t, <<>>)
    /\ UNCHANGED <<searches, ctxs, fds, k, yts, opened>>
    /\ Wrote(t)

---------------------------------------------------------------------------
(* Specifications *)

Step(t, I) ==
    \/ Getattr(t, I)
    \/ Readdir(t, I)
    \/ MkdirCall(t, I)
    \/ MkdirNew(t)
    \/ MkdirUpdate(t, I)
    \/ RenameCall(t, I)
    \/ RenameNew(t)
    \/ RenameUpdate(t, I)
    \/ RenameDel(t)
    \/ RmdirCall(t, I)
    \/ RmdirDel(t)
    \/ Unlink(t, I)
    \/ OpenCall(t, I)
    \/ OpenInfo(t)
    \/ PushScan(t)
    \/ PushStore(t)
    \/ OpenRegister(t)
    \/ Read(t, I)
    \/ Release(t, I)
    \/ Reply(t)


\* The inputs of the handlers when they run one at a time.
SeqInputs ==
    [snap |-> TRUE, getattr |-> Paths, readdir |-> Paths, mkdir |-> Paths,
     rmdir |-> Paths, unlink |-> Paths, old |-> OldPaths, new |-> NewPaths,
     open |-> OpenPaths, flags |-> OpenFlags, read |-> ReadPaths, fhs |-> Fhs,
     ranges |-> ReadRanges, release |-> ReleasePaths, results |-> SearchResults]

\* The inputs of the handlers when threads interleave: one directory, its
\* rename, one result file and one control file.  Both threads make and open;
\* the first also renames and observes, the second removes, reads and closes.
ConcInputs(t) ==
    LET first == t = SeqThread
        dir == {Slash \o sA}
        file == {Slash \o sA \o Slash \o sF}
        ctrl == {Slash \o sA \o Slash \o sNext}
    IN  [snap |-> FALSE,
         getattr |-> IF first THEN dir ELSE {},
         readdir |-> IF first THEN dir ELSE {},
         mkdir |-> dir,
         rmdir |-> IF first THEN {} ELSE dir,
         unlink |-> IF first THEN {} ELSE file,
         old |-> IF first THEN dir ELSE {},
         new |-> {Slash \o sB},
         open |-> IF first THEN file ELSE ctrl,
         flags |-> {0},
         read |-> IF first THEN {} ELSE ctrl,
         fhs |-> {0},
         ranges |-> {<<0, 4>>},
         release |-> IF first THEN {} ELSE file,
         results |-> {ResultNames}]

\* Handlers of several threads, interleaved.
Next == \E t \in Threads : Step(t, ConcInputs(t))

Spec == Init /\ [][Next]_vars

\* One handler at a time.
SeqNext == Step(SeqThread, SeqInputs)

SeqSpec == Init /\ [][SeqNext]_vars

---------------------------------------------------------------------------
(* Properties *)

\* Thread t has returned from a call of handler op and the host runtime has
\* not yet taken the result.
Done(t, op) == pc[t] = "done" /\ call[t].op = op

\* The classification of the path string of thread t's call.
Class(t) ==
    IF pathToTuple(call[t].path).ok THEN PathTypeGet(tid[t]) ELSE "unparsable"

\* Since thread t's call started, the directories, their objects and entries
\* (resp. the descriptor table) are the same.
TreeUnchanged(t) == searches = call[t].searches /\ ctxs = call[t].ctxs
FdsUnchanged(t) == fds = call[t].fds

\* The codes a handler raises with FuseOSError.
Errnos == {"EINVAL", "ENOENT", "EPERM", "EEXIST", "ENOTDIR", "EROFS", "EBADF"}

\* C1: no descriptor is handed out to two opens that are live at the same
\* time: of the opens that returned a descriptor since its last release, there
\* is at most one.
C1_NoSharedDescriptor == \A fd \in DOMAIN opened : opened[fd] <= 1

\* The names whose existence thread t has checked and whose tree update it
\* has not finished: mkdir before its store, rename from its checks to the
\* removal of the old name, rmdir from its lookup to the removal.
Mutating(t) ==
    IF pc[t] \in {"mkdir_new", "rmdir_del"} THEN {tid[t][1]}
    ELSE IF pc[t] \in {"rename_new", "rename_update", "rename_del"}
         THEN {tid[t][1], new[t][1]}
    ELSE {}

\* C2: at most one mkdir/rename/rmdir involving a name is between its
\* existence check and its tree update at any time.
C2_OneMutationPerName ==
    \A t, u \in Threads : t # u => Mutating(t) \cap Mutating(u) = {}

\* C3: a handler that returns an error code has changed neither the set of
\* search directories nor the descriptor table.
C3_NoPartialMutation ==
    \A t \in Threads : pc[t] = "done" /\ ret[t].code \in Errnos => ~wrote[t]

\* C4: mkdir on a path that does not classify as a search directory does not
\* succeed and leaves the tree as it was.
C4_MkdirOnlySearchDirectory ==
    \A t \in Threads :
        Done(t, "mkdir") /\ Class(t) \in {"main", "file", "ctrl", "invalid"}
        => ret[t].code # "OK" /\ TreeUnchanged(t)

\* C5: after mkdir("/n") succeeds on a search-directory path, n exists, n is
\* in the root listing, and every other name has the existence, the object
\* and the entries it had before the call.
C5_MkdirFrame ==
    \A t \in Threads :
        Done(t, "mkdir") /\ ret[t].code = "OK" /\ Class(t) = "subdir"
        => LET n == tid[t][1] IN
           /\ exists(searches, ctxs, <<n, None>>)
           /\ n \in ReaddirResult(searches, ctxs, <<None, None>>).names
           /\ DOMAIN searches \ {n} = DOMAIN call[t].searches \ {n}
           /\ \A m \in DOMAIN searches \ {n} :
                 /\ searches[m] = call[t].searches[m]
                 /\ ctxs[searches[m]] = call[t].ctxs[searches[m]]

\* C5 witness: a mkdir has succeeded while another directory, with entries,
\* exists.
C5_Witness ==
    \E t \in Threads :
        /\ Done(t, "mkdir") /\ ret[t].code = "OK" /\ Class(t) = "subdir"
        /\ \E m \in DOMAIN call[t].searches :
              m # tid[t][1] /\ call[t].ctxs[call[t].searches[m]].entries # {}

\* C6 as stated: mkdir fails with EPERM on Root and on a result file, with
\* EEXIST on a search directory that is present.
C6_Original ==
    \A t \in Threads :
        Done(t, "mkdir")
        => /\ Class(t) \in {"main", "file"} => ret[t].code = "EPERM"
           /\ Class(t) = "subdir" /\ tid[t][1] \in DOMAIN call[t].searches
              => ret[t].code = "EEXIST"

\* C6 amended: mkdir fails with EPERM on a result file, and with EEXIST on
\* Root and on a search directory that is present.
C6_MkdirErrors ==
    \A t \in Threads :
        Done(t, "mkdir")
        => /\ Class(t) = "file" => ret[t].code = "EPERM"
           /\ Class(t) = "main" => ret[t].code = "EEXIST"
           /\ Class(t) = "subdir" /\ tid[t][1] \in DOMAIN call[t].searches
              => ret[t].code = "EEXIST"

\* C6 witness: mkdir on Root has returned EEXIST.
C6_Witness ==
    \E t \in Threads : Done(t, "mkdir") /\ Class(t) = "main" /\ ret[t].code = "EEXIST"

\* C7 as stated: rename whose old path classifies as a result file fails with
\* EPERM, whether or not the file exists, and leaves the tree unchanged.
C7_Original ==
    \A t \in Threads :
        Done(t, "rename") /\ Class(t) = "file"
        => ret[t].code = "EPERM" /\ TreeUnchanged(t)

\* C7 amended: rename whose old path classifies as a result file leaves the
\* tree unchanged and fails: with EINVAL when the new path does not parse,
\* else with ENOENT when the file does not exist, else with EPERM.
C7_RenameFile ==
    \A t \in Threads :
        Done(t, "rename") /\ Class(t) = "file"
        => /\ TreeUnchanged(t)
           /\ ret[t].code =
                 IF ~pathToTuple(call[t].new).ok THEN "EINVAL"
                 ELSE IF ~exists(call[t].searches, call[t].ctxs, tid[t]) THEN "ENOENT"
                 ELSE "EPERM"

\* C7 witness: rename of an existing result file has returned EPERM.
C7_Witness ==
    \E t \in Threads :
        /\ Done(t, "rename") /\ Class(t) = "file" /\ ret[t].code = "EPERM"
        /\ exists(call[t].searches, call[t].ctxs, tid[t])

\* Both paths of thread t's rename are search-directory addresses.
RenameOfDirs(t) ==
    /\ Done(t, "rename") /\ Class(t) = "subdir"
    /\ pathToTuple(call[t].new).ok /\ PathTypeGet(new[t]) = "subdir"

C9_Rmdir ==
    \A t \in Threads :
        /\ pc[t] = "rmdir_del"
           => /\ tid[t][1] \in DOMAIN searches
              /\ ctxs[searches[tid[t][1]]].cleaned
              /\ log[t] = <<ResolverCall("clean", Stor(searches[tid[t][1]], <<>>), "", 0, 0, 0)>>
        /\ Done(t, "rmdir") /\ Class(t) # "unparsable"
           => LET n == tid[t][1]
                  before == call[t].searches
              IN  /\ Class(t) = "main" => ret[t].code = "EINVAL"
                  /\ Class(t) \in {"file", "ctrl"} => ret[t].code = "ENOTDIR"
                  /\ Class(t) = "subdir" /\ n \notin DOMAIN before => ret[t].code = "ENOENT"
                  /\ ret[t].code # "OK" => log[t] = <<>> /\ TreeUnchanged(t)
                  /\ Class(t) = "subdir" /\ n \in DOMAIN before
                     => /\ ret[t].code = "OK"
                        /\ log[t] = <<ResolverCall("clean", Stor(before[n], <<>>), "", 0, 0, 0)>>
                        /\ ~exists(searches, ctxs, <<n, None>>)
                        /\ searches = Del(before, n)

\* C9 witness: rmdir has removed a directory one of whose files a descriptor
\* was opened on.
C9_Witness ==
    \E t \in Threads :
        /\ Done(t, "rmdir") /\ ret[t].code = "OK"
        /\ \E fd \in DOMAIN fds : fds[fd].ctx = call[t].searches[tid[t][1]]

\* C10 as stated: unlink returns success for any path argument whatsoever and
\* changes neither the tree nor the descriptor table.
C10_Original ==
    \A t \in Threads :
        Done(t, "unlink") => ret[t].code = "OK" /\ TreeUnchanged(t) /\ FdsUnchanged(t)

\* C10 amended: unlink returns success for every path of the forms "/",
\* "//", "/dir", "/dir/" and "/dir/entry", existing or not, and fails with
\* EINVAL for a string that is empty, does not start with "/" or is deeper
\* than two segments; in every case it changes neither the tree nor the
\* descriptor table.
C10_Unlink ==
    \A t \in Threads :
        Done(t, "unlink")
        => /\ TreeUnchanged(t) /\ FdsUnchanged(t)
           /\ call[t].path \in BadPaths => ret[t].code = "EINVAL"
           /\ call[t].path \in Paths \ BadPaths => ret[t].code = "OK"

\* C10 witness: unlink of an existing result file has returned success while
\* a descriptor is open.
C10_Witness ==
    \E t \in Threads :
        /\ Done(t, "unlink") /\ ret[t].code = "OK" /\ Class(t) = "file"
        /\ exists(searches, ctxs, tid[t])
        /\ fds # EmptyDict

\* The Resolver call fn is among those thread t's call has made.
Called(t, fn) == \E i \in 1..Len(log[t]) : log[t][i].fn = fn

\* The flags of thread t's call ask for write access (508).
WriteMode(t) ==
    BitAnd(call[t].flags, O_WRONLY) # 0 \/ BitAnd(call[t].flags, O_RDWR) # 0

\* C11: open fails with EINVAL on an address that is neither a result file
\* nor a control file, else with EROFS when write access is asked for, else
\* with ENOENT when the address does not exist, and with EINVAL when
\* obtainInfo() answers false; a failing open leaves the descriptor table as
\* it was and does not call registerHandler().  A successful open of a result
\* file adds exactly the binding of the returned descriptor to the file's
\* YTStor and calls registerHandler() with that descriptor; a successful open
\* of a control file binds the descriptor to None and calls nothing.
C11_Open ==
    \A t \in Threads :
        Done(t, "open")
        => LET cls == Class(t)
               code == ret[t].code
               fh == ret[t].fh
               before == call[t]
               isfile == cls \in {"file", "ctrl"}
               there == exists(before.searches, before.ctxs, tid[t])
               stor == Stor(before.searches[tid[t][1]], tid[t][2])
           IN  /\ ~isfile => code = "EINVAL"
               /\ isfile /\ WriteMode(t) => code = "EROFS"
               /\ isfile /\ ~WriteMode(t) /\ ~there => code = "ENOENT"
               /\ code # "OK"
                  => /\ FdsUnchanged(t) /\ TreeUnchanged(t)
                     /\ ~Called(t, "registerHandler")
                     /\ code \in {"EINVAL", "EROFS", "ENOENT"}
               /\ cls = "file" /\ ~WriteMode(t) /\ there
                  => /\ code \in {"OK", "EINVAL"}
                     /\ code = "EINVAL"
                        => log[t] = <<ResolverCall("obtainInfo", stor, "", 0, 0, 0)>>
                     /\ code = "OK"
                        => /\ fh \notin DOMAIN before.fds
                           /\ fds = Put(before.fds, fh, stor)
                           /\ log[t] = <<ResolverCall("obtainInfo", stor, "", 0, 0, 0),
                                         ResolverCall("registerHandler", stor, "", 0, 0, fh)>>
               /\ cls = "ctrl" /\ ~WriteMode(t) /\ there
                  => /\ code = "OK"
                     /\ fh \notin DOMAIN before.fds
                     /\ fds = Put(before.fds, fh, NoStor)
                     /\ log[t] = <<>>

\* C11 witness: a result file has been opened while another descriptor was
\* allocated.
C11_Witness ==
    \E t \in Threads :
        /\ Done(t, "open") /\ ret[t].code = "OK" /\ Class(t) = "file"
        /\ call[t].fds # EmptyDict
        /\ fds[ret[t].fh] # NoStor

\* The number of bytes of b in the range [offset, offset + length).
Clipped(b, offset, length) ==
    IF offset >= Len(b) THEN 0
    ELSE IF offset + length > Len(b) THEN Len(b) - offset
    ELSE length

Lifecycle ==
    /\ DOMAIN opened \subseteq DOMAIN fds
    /\ \A fd \in DOMAIN fds :
          \/ fd \in DOMAIN opened
          \/ \E t \in Threads : pc[t] = "open_register" /\ k[t] = fd

\* A read through a descriptor bound to a YTStor is forwarded to that
\* YTStor's read with the offset, the length and the descriptor, and
\* returns what it returns.
Forwarded(t) ==
    LET before == call[t] IN
    /\ ret[t].code = "OK"
    /\ ret[t].stor = before.fds[before.fh]
    /\ log[t] = <<ResolverCall("read", before.fds[before.fh], "",
                               before.offset, before.length, before.fh)>>

HandleOf(t) ==
    IF Class(t) = "file" THEN Stor(call[t].searches[tid[t][1]], tid[t][2]) ELSE NoStor

\* C14: an allocation that no other call interleaves with returns the
\* smallest non-negative integer that is not in the table, binds it to the
\* given handle and leaves the other bindings as they were; so a released
\* descriptor is returned again when it is the smallest one free.
C14_LowestFree ==
    \A t \in Threads :
        Done(t, "open") /\ ret[t].code = "OK"
        => LET fh == ret[t].fh
               before == call[t].fds
           IN  /\ fh \notin DOMAIN before
               /\ \A j \in 0..(fh - 1) : j \in DOMAIN before
               /\ DOMAIN fds = DOMAIN before \cup {fh}
               /\ fds[fh] = HandleOf(t)
               /\ \A d \in DOMAIN before : fds[d] = before[d]

\* C14 witness: an open has returned descriptor 0 while a larger descriptor
\* was allocated (0 had been released).
C14_Witness ==
    \E t \in Threads :
        /\ Done(t, "open") /\ ret[t].code = "OK" /\ ret[t].fh = 0
        /\ 1 \in DOMAIN call[t].fds

\* What release does given the descriptor alone: EBADF and no change when
\* it is not in the table, else success and exactly its binding removed; the
\* tree is unchanged.
ReleaseByFd(t) ==
    LET fh == call[t].fh
        before == call[t].fds
    IN  /\ TreeUnchanged(t)
        /\ fh \notin DOMAIN before => ret[t].code = "EBADF" /\ FdsUnchanged(t)
        /\ fh \in DOMAIN before
           => /\ ret[t].code = "OK"
              /\ DOMAIN fds = DOMAIN before \ {fh}
              /\ \A d \in DOMAIN fds : fds[d] = before[d]

Segments(path) ==
    LET sp == Split(path) IN Cardinality({i \in 1..Len(sp) : sp[i] # <<>>})

\* C16: a handler called with a path string that is empty, does not start
\* with "/" or has more than two non-empty segments fails with EINVAL; the
\* tuple identifier of a string that parses has components that are
\* non-empty strings or None, a directory whenever it has an entry, and is
\* never of type invalid.
C16_PathParsing ==
    \A t \in Threads :
        pc[t] = "done"
        => LET path == call[t].path IN
           /\ (path = <<>> \/ Head(path) # "/" \/ Segments(path) > 2)
              => ret[t].code = "EINVAL"
           /\ pathToTuple(path).ok
              => /\ \A i \in 1..2 : tid[t][i] = None \/ tid[t][i] # <<>>
                 /\ tid[t][2] # None => tid[t][1] # None
                 /\ PathTypeGet(tid[t]) \in {"main", "subdir", "file", "ctrl"}

\* The address p is Root, a search directory of the tree s, or an entry
\* that a search directory of s contains.
InTree(s, cs, p) ==
    \/ p = <<None, None>>
    \/ Truthy(p[1]) /\ p[2] = None /\ p[1] \in DOMAIN s
    \/ Truthy(p[1]) /\ Truthy(p[2]) /\ p[1] \in DOMAIN s
       /\ p[2] \in cs[s[p[1]]].entries

\* C17: for a path that parses, getattr succeeds iff its address is in the
\* tree and fails with ENOENT otherwise; readdir of Root returns ".", ".."
\* and the names of the search directories, readdir of an existing search
\* directory ".", ".." and its entry names; readdir fails with ENOTDIR on a
\* result-file address and with ENOENT on any other; neither changes the
\* tree or the descriptor table.
C17_Observation ==
    \A t \in Threads :
        LET before == call[t]
            p == tid[t]
            code == ret[t].code
        IN  /\ Done(t, "getattr") /\ Class(t) # "unparsable"
               => /\ TreeUnchanged(t) /\ FdsUnchanged(t)
                  /\ code = "OK" <=> InTree(before.searches, before.ctxs, p)
                  /\ code # "OK" => code = "ENOENT"
            /\ Done(t, "readdir") /\ Class(t) # "unparsable"
               => /\ TreeUnchanged(t) /\ FdsUnchanged(t)
                  /\ Class(t) = "main"
                     => code = "OK" /\ ret[t].names = Dots \cup DOMAIN before.searches
                  /\ Class(t) = "subdir" /\ p[1] \in DOMAIN before.searches
                     => /\ code = "OK"
                        /\ ret[t].names =
                              Dots \cup before.ctxs[before.searches[p[1]]].entries
                  /\ Class(t) = "file" => code = "ENOTDIR"
                  /\ Class(t) = "subdir" /\ p[1] \notin DOMAIN before.searches
                     => code = "ENOENT"
                  /\ Class(t) \in {"ctrl", "invalid"} => code = "ENOENT"

\* C18: mkdir on a search-directory address that does not exist returns
\* success and the directory exists afterwards, whatever the initial search
\* does; a mkdir that does not return success has not changed the tree.
C18_MkdirSurvivesSearch ==
    \A t \in Threads :
        Done(t, "mkdir")
        => /\ Class(t) = "subdir" /\ tid[t][1] \notin DOMAIN call[t].searches
              => ret[t].code = "OK" /\ tid[t][1] \in DOMAIN searches
           /\ ret[t].code # "OK" => TreeUnchanged(t)

\* The objects the tree references.
TreeObjects(s) == {s[n] : n \in DOMAIN s}

\* C19: getattr, readdir, mkdir, rmdir, rename, unlink and read leave the
\* descriptor table as it was; a successful open adds exactly one binding
\* and a successful release removes exactly one; a read through a
\* descriptor bound to a YTStor of a directory that is no longer in the tree
\* is still forwarded to that YTStor.
C19_TableFrame ==
    \A t \in Threads :
        LET before == call[t].fds IN
        /\ pc[t] = "done" /\ call[t].op \notin {"open", "release"} => fds = before
        /\ pc[t] = "done" /\ call[t].op \in {"open", "release"} /\ ret[t].code # "OK"
           => fds = before
        /\ Done(t, "open") /\ ret[t].code = "OK"
           => /\ Cardinality(DOMAIN fds \ DOMAIN before) = 1
              /\ \A d \in DOMAIN before : d \in DOMAIN fds /\ fds[d] = before[d]
        /\ Done(t, "release") /\ ret[t].code = "OK"
           => /\ Cardinality(DOMAIN before \ DOMAIN fds) = 1
              /\ \A d \in DOMAIN fds : d \in DOMAIN before /\ fds[d] = before[d]
        /\ Done(t, "read") /\ Class(t) # "unparsable"
           /\ call[t].fh \in DOMAIN before /\ before[call[t].fh] # NoStor
           /\ before[call[t].fh].ctx \notin TreeObjects(searches)
           => Forwarded(t)

\* C19 witness: a read has been forwarded through a descriptor whose
\* directory is no longer in the tree.
C19_Witness ==
    \E t \in Threads :
        /\ Done(t, "read") /\ ret[t].code = "OK" /\ Called(t, "read")
        /\ fds[call[t].fh].ctx \notin TreeObjects(searches)

\* C20: clean() is called only by rmdir, exactly once by a successful
\* rmdir, on the object of the directory and while the directory is still in
\* the tree; a successful rename makes no clean() call, and the object of
\* the old directory, which it drops, has not been cleaned.
C20_CleanOnlyByRmdir ==
    \A t \in Threads :
        /\ Called(t, "clean") => call[t].op = "rmdir"
        /\ pc[t] = "rmdir_del"
           => /\ tid[t][1] \in DOMAIN searches
              /\ log[t] = <<ResolverCall("clean", Stor(searches[tid[t][1]], <<>>),
                                         "", 0, 0, 0)>>
        /\ Done(t, "rmdir") /\ ret[t].code = "OK"
           => /\ Len(log[t]) = 1 /\ log[t][1].fn = "clean"
              /\ log[t][1].ctx = call[t].searches[tid[t][1]]
              /\ tid[t][1] \notin DOMAIN searches
        /\ Done(t, "rename") /\ ret[t].code = "OK"
           => /\ ~Called(t, "clean")
              /\ ~call[t].ctxs[call[t].searches[tid[t][1]]].cleaned
              /\ call[t].searches[tid[t][1]] \notin TreeObjects(searches)

\* C20 witness: a rename has succeeded and dropped the old directory's
\* object while a descriptor is bound to one of its YTStor objects.
C20_Witness ==
    \E t \in Threads :
        /\ Done(t, "rename") /\ ret[t].code = "OK"
        /\ \E fd \in DOMAIN fds : fds[fd].ctx = call[t].searches[tid[t][1]]

====
